---- MODULE Spec2Model ----
(***************************************************************************)
(* Carbon footprint calculator for meals and the meal comparison tool.     *)
(*                                                                         *)
(* CarbonFootprintCalculator (src/src/carbon_footprint_calculator.py)      *)
(* holds the emission table cfp_food; MealComparisonTool                   *)
(* (src/src/meal_comparison.py) holds the dict meals.  Every method is one *)
(* action; the variables op, arg, ret, out, raised and locals record the   *)
(* last call: its name, arguments, return value, printed lines, the        *)
(* exception that left it (or "None") and the local data it built.         *)
(*                                                                         *)
(* Numbers: emission factors and quantities are floats in the program and  *)
(* integers here (a factor of 600 stands for 60.0 kg CO2 per kg), so sums  *)
(* and products are exact.  Strings are sequences of one-character         *)
(* strings, so that str.lower() is computed, not assumed.  A Python dict   *)
(* is a sequence of [key, val] records in insertion order.                 *)
(***************************************************************************)
EXTENDS Integers, Sequences, FiniteSets, TLC

VARIABLES cfp_data, cfp_food, meals, op, arg, ret, out, raised, locals

vars == <<cfp_data, cfp_food, meals, op, arg, ret, out, raised, locals>>

(* Bounds of the model *)

\* longest item list passed to calculate_footprint on its own
MaxItems == 3
\* longest item list of a meal stored in the comparison tool
MaxMealItems == 2
\* largest max_suggestions passed to suggest_alternatives
MaxSuggestions == 3
\* most rows in the emission table explored for suggest_alternatives
MaxFoods == 3

(* Strings *)

LowerChar(c) ==
    CASE c = "A" -> "a"
      [] c = "B" -> "b"
      [] c = "C" -> "c"
      [] c = "L" -> "l"
      [] c = "R" -> "r"
      [] OTHER -> c

\* str.lower()
Lower(s) == [i \in DOMAIN s |-> LowerChar(s[i])]

RECURSIVE LStrip(_)
LStrip(s) == IF s # <<>> /\ Head(s) = " " THEN LStrip(Tail(s)) ELSE s

RECURSIVE RStrip(_)
RStrip(s) ==
    IF s # <<>> /\ s[Len(s)] = " " THEN RStrip(SubSeq(s, 1, Len(s) - 1)) ELSE s

\* str.strip()
Strip(s) == RStrip(LStrip(s))

(* Python building blocks *)

\* the value of locals after a call that built nothing to report
NoLocals == [none |-> TRUE]

RECURSIVE Sum(_)
\* sum(list)
Sum(s) == IF s = <<>> THEN 0 ELSE Head(s) + Sum(Tail(s))

\* key in dict
DictHas(d, k) == \E i \in DOMAIN d : d[i].key = k

\* dict[key]
DictGet(d, k) == d[CHOOSE i \in DOMAIN d : d[i].key = k].val

\* DictSet with the bug of moving a key that is set again to the end
DictSet_MoveToEnd(d, k, v) ==
    Append(SelectSeq(d, LAMBDA e : e.key # k), [key |-> k, val |-> v])

\* dict[key] = val: an existing key keeps its position, a new key goes last
DictSet(d, k, v) ==
    IF DictHas(d, k)
    THEN LET i == CHOOSE j \in DOMAIN d : d[j].key = k
         IN  SubSeq(d, 1, i - 1) \o <<[key |-> k, val |-> v]>>
                 \o SubSeq(d, i + 1, Len(d))
    ELSE Append(d, [key |-> k, val |-> v])

\* list(dict.keys())
DictKeys(d) == [i \in DOMAIN d |-> d[i].key]

\* the set of elements of a sequence
Range(s) == {s[i] : i \in DOMAIN s}

\* all sequences over S of length at most n
SeqsUpTo(S, n) == UNION {[1..k -> S] : k \in 0..n}

RECURSIVE Concat(_)
\* the lists of a list of lists, one after the other
Concat(ss) == IF ss = <<>> THEN <<>> ELSE Head(ss) \o Concat(Tail(ss))

\* the bijections of 1..n
Perms(n) == {p \in [1..n -> 1..n] : \A i, j \in 1..n : i # j => p[i] # p[j]}

(* CarbonFootprintCalculator *)

\* DataFrame.sort_values(by=by, ascending=asc): the default sort kind is not
\* stable, so rows with equal values may come out in any order
sort_values(df, by, asc) ==
    {[i \in DOMAIN df |-> df[p[i]]] : p \in
        {q \in Perms(Len(df)) :
            \A i, j \in DOMAIN df :
                i < j => IF asc THEN df[q[i]][by] <= df[q[j]][by]
                                ELSE df[q[i]][by] >= df[q[j]][by]}}

\* process_data: the two columns, food names lowercased, rows sorted by cfp
process_data(data) ==
    sort_values([i \in DOMAIN data |->
                    [food |-> Lower(data[i].food), cfp |-> data[i].cfp]],
                "cfp", TRUE)

\* self.food_list
food_list(index) == [i \in DOMAIN index |-> index[i].food]

\* item in self.food_list
InFoodList(index, item) == \E i \in DOMAIN index : index[i].food = item

\* self.cfp_food.loc[self.cfp_food['food'] == item, 'cfp'].values[0]
item_cfp(index, item) ==
    index[CHOOSE i \in DOMAIN index :
            /\ index[i].food = item
            /\ \A j \in DOMAIN index : index[j].food = item => i <= j].cfp

WarningNotFound == "Warning: {item} not found in the database. Skipping."

\* CalcStep with the bug of keeping an unknown food as a zero entry instead of
\* skipping it
CalcStep_KeepUnknown(index, st, it) ==
    IF ~InFoodList(index, it.food)
    THEN [items_cfps |-> Append(st.items_cfps, 0),
          item_breakdown |->
              DictSet(st.item_breakdown, it.food,
                      [quantity |-> it.quantity, unit_cfp |-> 0, total_cfp |-> 0]),
          out |-> Append(st.out, <<WarningNotFound, it.food>>)]
    ELSE LET unit == item_cfp(index, it.food)
             item_cfp_q == it.quantity * unit
         IN  [items_cfps |-> Append(st.items_cfps, item_cfp_q),
              item_breakdown |->
                  DictSet(st.item_breakdown, it.food,
                          [quantity |-> it.quantity, unit_cfp |-> unit,
                           total_cfp |-> item_cfp_q]),
              out |-> st.out]

\* one pass of the loop of calculate_footprint over item it, from the loop
\* state st = [items_cfps, item_breakdown, out]
CalcStep(index, st, it) ==
    IF ~InFoodList(index, it.food)
    THEN [st EXCEPT !.out = Append(@, <<WarningNotFound, it.food>>)]
    ELSE LET unit == item_cfp(index, it.food)
             item_cfp_q == it.quantity * unit
         IN  [items_cfps |-> Append(st.items_cfps, item_cfp_q),
              item_breakdown |->
                  DictSet(st.item_breakdown, it.food,
                          [quantity |-> it.quantity, unit_cfp |-> unit,
                           total_cfp |-> item_cfp_q]),
              out |-> st.out]

RECURSIVE CalcLoop(_, _, _)
CalcLoop(index, st, items) ==
    IF items = <<>> THEN st
    ELSE CalcLoop(index, CalcStep(index, st, Head(items)), Tail(items))

\* calculate_footprint with the bug of totalling the breakdown entries, which
\* hold one entry for each food, instead of the list items_cfps
calculate_footprint_SumBreakdown(index, items) ==
    LET st == CalcLoop(index,
                       [items_cfps |-> <<>>, item_breakdown |-> <<>>, out |-> <<>>],
                       items)
    IN  [ret |-> <<Sum([i \in DOMAIN st.item_breakdown |->
                          st.item_breakdown[i].val.total_cfp]),
                   st.item_breakdown>>,
         out |-> st.out]

\* calculate_footprint(items): the returned tuple (total_cfp, item_breakdown)
\* and the lines it prints
calculate_footprint(index, items) ==
    LET st == CalcLoop(index,
                       [items_cfps |-> <<>>, item_breakdown |-> <<>>, out |-> <<>>],
                       items)
    IN  [ret |-> <<Sum(st.items_cfps), st.item_breakdown>>, out |-> st.out]

\* DataFrame.head(n): the first n rows; for n < 0 all rows but the last -n
head(df, n) ==
    IF n >= 0
    THEN SubSeq(df, 1, IF n < Len(df) THEN n ELSE Len(df))
    ELSE SubSeq(df, 1, IF Len(df) + n > 0 THEN Len(df) + n ELSE 0)

\* the filter with the bug of <= for <
alternatives_lower_cfp_OrEqual(index, cfp) ==
    SelectSeq(index, LAMBDA row : row.cfp <= cfp)

\* self.cfp_food[self.cfp_food['cfp'] < item_cfp]
alternatives_lower_cfp(index, cfp) == SelectSeq(index, LAMBDA row : row.cfp < cfp)

\* suggest_alternatives with the bug of sorting ascending (lowest first)
suggest_alternatives_Ascending(index, food_item, max_suggestions) ==
    IF ~InFoodList(index, food_item)
    THEN {<<>>}
    ELSE LET alts == alternatives_lower_cfp(index, item_cfp(index, food_item))
         IN  IF alts = <<>>
             THEN {<<>>}
             ELSE {[i \in DOMAIN head(s, max_suggestions) |-> <<s[i].food, s[i].cfp>>] :
                      s \in sort_values(alts, "cfp", TRUE)}

\* suggest_alternatives(food_item, max_suggestions): the lists it may return
\* (one for each order the descending sort may give rows of equal cfp)
suggest_alternatives(index, food_item, max_suggestions) ==
    IF ~InFoodList(index, food_item)
    THEN {<<>>}
    ELSE LET alts == alternatives_lower_cfp(index, item_cfp(index, food_item))
         IN  IF alts = <<>>
             THEN {<<>>}
             ELSE {[i \in DOMAIN head(s, max_suggestions) |-> <<s[i].food, s[i].cfp>>] :
                      s \in sort_values(alts, "cfp", FALSE)}

(* Inputs *)

Beef == <<"b">>
Rice == <<"r">>
Lentils == <<"l">>
Tofu == <<"t">>

\* the emission table of the specification's scenarios (rice 2.0, lentils 0.9,
\* beef 60.0), in tenths, with the capitalised names of the data file
ScenarioData ==
    << [food |-> <<"R">>, cfp |-> 20],
       [food |-> <<"L">>, cfp |-> 9],
       [food |-> <<"B">>, cfp |-> 600] >>

\* a table with a repeated food name and two foods of equal factor
RepeatedData ==
    << [food |-> <<"B">>, cfp |-> 600],
       [food |-> <<"r">>, cfp |-> 20],
       [food |-> <<"b">>, cfp |-> 20] >>

CalcTables == {ScenarioData, RepeatedData}

RawNames == {<<"B">>, <<"b">>, <<"r">>}
Factors == {1, 2, 3}
RawRecords == [food : RawNames, cfp : Factors]

\* every table of 1..MaxFoods rows
SuggestTables == SeqsUpTo(RawRecords, MaxFoods) \ {<<>>}

\* food names asked of the calculator: two known foods, an upper-case and a
\* padded variant of a known food, and a food no table has
QueryFoods == {Beef, Rice, <<"B">>, <<"r", " ">>, Tofu}
Quantities == {-1, 0, 1, 2}
\* items of the lists given to calculate_footprint on its own
Items == [food : {Beef, Rice, <<"B">>, <<"r", " ">>}, quantity : Quantities]
ItemLists == SeqsUpTo(Items, MaxItems)

(* The state after construction: CarbonFootprintCalculator.__init__ has read
   the table and run process_data; MealComparisonTool.__init__ has set
   meals = {} *)

InitOn(tables) ==
    /\ cfp_data \in tables
    /\ cfp_food \in process_data(cfp_data)
    /\ meals = <<>>
    /\ op = "__init__"
    /\ arg = <<>>
    /\ ret = "None"
    /\ out = <<>>
    /\ raised = "None"
    /\ locals = NoLocals

InitCalc == InitOn(CalcTables)

InitSuggest == InitOn(SuggestTables)

(* Calls of the calculator.  Both methods only read cfp_food, so a call made
   on the calculator as constructed shows everything a later call can do. *)

CalculateFootprint ==
    /\ op = "__init__"
    /\ \E items \in ItemLists :
        LET r == calculate_footprint(cfp_food, items)
        IN  /\ op' = "calculate_footprint"
            /\ arg' = items
            /\ ret' = r.ret
            /\ out' = r.out
            /\ raised' = "None"
            /\ locals' = NoLocals
            /\ UNCHANGED <<cfp_data, cfp_food, meals>>

SuggestAlternatives ==
    /\ op = "__init__"
    /\ \E food_item \in QueryFoods, max_suggestions \in 0..MaxSuggestions :
        \E r \in suggest_alternatives(cfp_food, food_item, max_suggestions) :
            /\ op' = "suggest_alternatives"
            /\ arg' = [food_item |-> food_item, max_suggestions |-> max_suggestions]
            /\ ret' = r
            /\ out' = <<>>
            /\ raised' = "None"
            /\ locals' = NoLocals
            /\ UNCHANGED <<cfp_data, cfp_food, meals>>

NextCalc == CalculateFootprint

SpecCalc == InitCalc /\ [][NextCalc]_vars

NextSuggest == SuggestAlternatives

SpecSuggest == InitSuggest /\ [][NextSuggest]_vars

\* both lookups of the calculator, on the tables of InitCalc
NextLookup ==
    \/ CalculateFootprint
    \/ SuggestAlternatives

SpecLookup == InitCalc /\ [][NextLookup]_vars

(* MealComparisonTool *)

AddedMeal == "Added meal: {meal_name} with carbon footprint {total_cfp:.2f} kg CO2"

\* add_meal with the bug of starting the dict afresh: self.meals = {meal_name: ...}
add_meal_Reset(index, ms, meal_name, items) ==
    LET r == calculate_footprint(index, items)
    IN  [meals |-> <<[key |-> meal_name,
                      val |-> [items |-> items, total_cfp |-> r.ret[1],
                               breakdown |-> r.ret[2]]]>>,
         out |-> Append(r.out, <<AddedMeal, meal_name>>)]

\* add_meal: the dict meals after self.meals[meal_name] = {...} and the lines
\* printed
add_meal(index, ms, meal_name, items) ==
    LET r == calculate_footprint(index, items)
    IN  [meals |-> DictSet(ms, meal_name,
                           [items |-> items, total_cfp |-> r.ret[1],
                            breakdown |-> r.ret[2]]),
         out |-> Append(r.out, <<AddedMeal, meal_name>>)]

\* InsertSorted with the bug of an unstable sort: x goes before its equals
InsertSorted_BeforeEqual(srt, x, reverse) ==
    LET Before(e) == IF reverse THEN e.val.total_cfp > x.val.total_cfp
                                ELSE e.val.total_cfp < x.val.total_cfp
        n == Cardinality({i \in DOMAIN srt : Before(srt[i])})
    IN  SubSeq(srt, 1, n) \o <<x>> \o SubSeq(srt, n + 1, Len(srt))

\* the place of x in a list already sorted by total_cfp: behind every element
\* that does not come after it, as a stable sort places it
InsertSorted(srt, x, reverse) ==
    LET After(e) == IF reverse THEN e.val.total_cfp < x.val.total_cfp
                               ELSE e.val.total_cfp > x.val.total_cfp
        n == Cardinality({i \in DOMAIN srt : ~After(srt[i])})
    IN  SubSeq(srt, 1, n) \o <<x>> \o SubSeq(srt, n + 1, Len(srt))

RECURSIVE SortInto(_, _, _)
SortInto(srt, rest, reverse) ==
    IF rest = <<>> THEN srt
    ELSE SortInto(InsertSorted(srt, Head(rest), reverse), Tail(rest), reverse)

\* sorted(self.meals.items(), key=lambda x: x[1]['total_cfp'], reverse=reverse):
\* Python's sort is stable, also with reverse=True
sorted(ms, reverse) == SortInto(<<>>, ms, reverse)

\* total_cfp of a stored meal is the int 0 of sum([]) when no item was valid,
\* and a numpy float64 otherwise
IsPythonInt(meal) == meal.breakdown = <<>>

\* a / b: Python numbers raise ZeroDivisionError on b = 0, while a division
\* with a numpy float64 operand gives nan or an infinity (and a warning)
TrueDiv(a, b, python) ==
    IF b # 0 THEN [kind |-> "value", num |-> a, den |-> b]
    ELSE IF python THEN [kind |-> "ZeroDivisionError", num |-> a, den |-> b]
    ELSE IF a = 0 THEN [kind |-> "nan", num |-> a, den |-> b]
    ELSE IF a > 0 THEN [kind |-> "inf", num |-> a, den |-> b]
    ELSE [kind |-> "-inf", num |-> a, den |-> b]

NoMealsToCompare == "No meals to compare. Please add meals first."
NoMealsToSave == "No meals to save. Please add meals first."
NeedTwoMeals == "Need at least two meals to create a stacked comparison."
TableRow == "{meal_name:<20} {data['total_cfp']:<25.2f} {items_str}"
LowestIs == "The meal with the lowest carbon footprint is:"
HighestIs == "The meal with the highest carbon footprint is:"
SwitchingFrom == "Switching from {highest_cfp_meal} to {lowest_cfp_meal} would reduce your carbon footprint"
PlotSaved == "plot saved to {save_path}"
ComparisonSaved == "Comparison saved to {filename}"

\* set.update over the breakdown keys of every meal
all_food_items(ms) ==
    UNION {Range(DictKeys(ms[i].val.breakdown)) : i \in DOMAIN ms}

\* the orders in which a for loop may walk a set
IterationOrders(S) ==
    {o \in [1..Cardinality(S) -> S] : \A i, j \in DOMAIN o : i # j => o[i] # o[j]}

\* stacked_data with the bug of leaving out the foods a meal does not have
stacked_data_OmitAbsent(ms, foods) ==
    SelectSeq([k \in 1..(Len(ms) * Len(foods)) |->
                  LET meal == ms[((k - 1) \div Len(foods)) + 1]
                      food_item == foods[((k - 1) % Len(foods)) + 1]
                  IN  [Meal |-> meal.key,
                       FoodItem |-> food_item,
                       CarbonFootprint |->
                           IF DictHas(meal.val.breakdown, food_item)
                           THEN DictGet(meal.val.breakdown, food_item).total_cfp
                           ELSE -1]],
              LAMBDA row : row.CarbonFootprint # -1)

\* the list data of plot_stacked_comparison: for each meal in dict order, for
\* each food in the order foods, one row
stacked_data(ms, foods) ==
    [k \in 1..(Len(ms) * Len(foods)) |->
        LET meal == ms[((k - 1) \div Len(foods)) + 1]
            food_item == foods[((k - 1) % Len(foods)) + 1]
        IN  [Meal |-> meal.key,
             FoodItem |-> food_item,
             CarbonFootprint |->
                 IF DictHas(meal.val.breakdown, food_item)
                 THEN DictGet(meal.val.breakdown, food_item).total_cfp
                 ELSE 0]]

\* DataFrame(data).pivot(index='Meal', columns='Food Item',
\* values='Carbon Footprint'): KeyError on a frame without rows (it has no
\* columns), ValueError on a repeated (Meal, Food Item) pair
pivot(data) ==
    IF data = <<>> THEN [raised |-> "KeyError", df |-> <<>>]
    ELSE IF \E i, j \in DOMAIN data :
                i # j /\ data[i].Meal = data[j].Meal /\ data[i].FoodItem = data[j].FoodItem
    THEN [raised |-> "ValueError", df |-> <<>>]
    ELSE [raised |-> "None",
          df |-> [c \in {<<data[i].Meal, data[i].FoodItem>> : i \in DOMAIN data} |->
                     data[CHOOSE i \in DOMAIN data :
                             <<data[i].Meal, data[i].FoodItem>> = c].CarbonFootprint]]

(* Inputs of the comparison tool *)

Lunch == <<"L", "u", "n", "c", "h">>
Dinner == <<"D", "i", "n", "n", "e", "r">>
MealNames == {Lunch, Dinner}

\* items of the meals: two known foods and an unknown one
MealItems ==
    { [food |-> Beef, quantity |-> 1],
      [food |-> Rice, quantity |-> 2],
      [food |-> Tofu, quantity |-> 1] }

MealItemLists == SeqsUpTo(MealItems, MaxMealItems)

Init == InitOn({ScenarioData})

(* Calls of the comparison tool *)

AddMeal ==
    \E meal_name \in MealNames, items \in MealItemLists :
        /\ op' = "add_meal"
        /\ arg' = [meal_name |-> meal_name, items |-> items]
        /\ meals' = add_meal(cfp_food, meals, meal_name, items).meals
        /\ ret' = "None"
        /\ out' = add_meal(cfp_food, meals, meal_name, items).out
        /\ raised' = "None"
        /\ locals' = NoLocals
        /\ UNCHANGED <<cfp_data, cfp_food>>

\* q * 100 for the outcome q of a division: a value is the fraction num / den
Times100(q) == IF q.kind = "value" THEN [q EXCEPT !.num = @ * 100] ELSE q

CompareMeals ==
    /\ op' = "compare_meals"
    /\ arg' = <<>>
    /\ ret' = "None"
    /\ UNCHANGED <<cfp_data, cfp_food, meals>>
    /\ IF meals = <<>>
       THEN /\ out' = <<<<NoMealsToCompare, <<>>>>>>
            /\ raised' = "None"
            /\ locals' = NoLocals
       ELSE LET sorted_meals == sorted(meals, FALSE)
                lowest_cfp_meal == sorted_meals[1].key
                highest_cfp_meal == sorted_meals[Len(sorted_meals)].key
                highest == DictGet(meals, highest_cfp_meal)
                lowest == DictGet(meals, lowest_cfp_meal)
                difference == highest.total_cfp - lowest.total_cfp
                percentage ==
                    Times100(TrueDiv(difference, highest.total_cfp,
                                     IsPythonInt(highest) /\ IsPythonInt(lowest)))
                table == [i \in DOMAIN sorted_meals |-> <<TableRow, sorted_meals[i].key>>]
                         \o << <<LowestIs, lowest_cfp_meal>>,
                               <<HighestIs, highest_cfp_meal>> >>
            IN  IF Len(sorted_meals) > 1
                THEN IF percentage.kind = "ZeroDivisionError"
                     THEN /\ raised' = "ZeroDivisionError"
                          /\ out' = table
                          /\ locals' = [sorted_meals |-> sorted_meals,
                                        lowest_cfp_meal |-> lowest_cfp_meal,
                                        highest_cfp_meal |-> highest_cfp_meal,
                                        difference |-> difference]
                     ELSE /\ raised' = "None"
                          /\ out' = Append(table, <<SwitchingFrom, highest_cfp_meal>>)
                          /\ locals' = [sorted_meals |-> sorted_meals,
                                        lowest_cfp_meal |-> lowest_cfp_meal,
                                        highest_cfp_meal |-> highest_cfp_meal,
                                        difference |-> difference,
                                        percentage |-> percentage]
                ELSE /\ raised' = "None"
                     /\ out' = table
                     /\ locals' = [sorted_meals |-> sorted_meals,
                                   lowest_cfp_meal |-> lowest_cfp_meal,
                                   highest_cfp_meal |-> highest_cfp_meal]

\* the chart itself is drawn by matplotlib and is not modelled
PlotMealComparison ==
    /\ op' = "plot_meal_comparison"
    /\ arg' = <<>>
    /\ ret' = "None"
    /\ raised' = "None"
    /\ UNCHANGED <<cfp_data, cfp_food, meals>>
    /\ IF meals = <<>>
       THEN /\ out' = <<<<NoMealsToCompare, <<>>>>>>
            /\ locals' = NoLocals
       ELSE \E df \in sort_values([i \in DOMAIN meals |->
                                      [Meal |-> meals[i].key,
                                       CarbonFootprint |-> meals[i].val.total_cfp]],
                                  "CarbonFootprint", TRUE) :
                /\ out' = <<<<PlotSaved, <<>>>>>>
                /\ locals' = [df |-> df]

\* plot_stacked_comparison with the bug of testing only for an empty dict
PlotStackedComparison_OneMealEnough ==
    /\ op' = "plot_stacked_comparison"
    /\ arg' = <<>>
    /\ ret' = "None"
    /\ UNCHANGED <<cfp_data, cfp_food, meals>>
    /\ IF meals = <<>>
       THEN /\ out' = <<<<NeedTwoMeals, <<>>>>>>
            /\ raised' = "None"
            /\ locals' = NoLocals
       ELSE \E foods \in IterationOrders(all_food_items(meals)) :
                LET data == stacked_data(meals, foods)
                    pivot_df == pivot(data)
                    srt == sorted(meals, TRUE)
                    meal_order == [i \in DOMAIN srt |-> srt[i].key]
                IN  /\ raised' = pivot_df.raised
                    /\ out' = IF pivot_df.raised = "None"
                              THEN <<<<PlotSaved, <<>>>>>> ELSE <<>>
                    /\ locals' =
                           IF pivot_df.raised = "None"
                           THEN [all_food_items |-> all_food_items(meals),
                                 data |-> data,
                                 pivot_df |-> pivot_df.df,
                                 meal_order |-> meal_order]
                           ELSE [all_food_items |-> all_food_items(meals),
                                 data |-> data]

\* the chart itself is drawn by matplotlib and is not modelled
PlotStackedComparison ==
    /\ op' = "plot_stacked_comparison"
    /\ arg' = <<>>
    /\ ret' = "None"
    /\ UNCHANGED <<cfp_data, cfp_food, meals>>
    /\ IF meals = <<>> \/ Len(meals) < 2
       THEN /\ out' = <<<<NeedTwoMeals, <<>>>>>>
            /\ raised' = "None"
            /\ locals' = NoLocals
       ELSE \E foods \in IterationOrders(all_food_items(meals)) :
                LET data == stacked_data(meals, foods)
                    pivot_df == pivot(data)
                    srt == sorted(meals, TRUE)
                    meal_order == [i \in DOMAIN srt |-> srt[i].key]
                IN  /\ raised' = pivot_df.raised
                    /\ out' = IF pivot_df.raised = "None"
                              THEN <<<<PlotSaved, <<>>>>>> ELSE <<>>
                    /\ locals' =
                           IF pivot_df.raised = "None"
                           THEN [all_food_items |-> all_food_items(meals),
                                 data |-> data,
                                 pivot_df |-> pivot_df.df,
                                 meal_order |-> meal_order]
                           ELSE [all_food_items |-> all_food_items(meals),
                                 data |-> data]

\* the two sheets are written by pandas.ExcelWriter, which is not modelled
SaveComparison ==
    /\ op' = "save_comparison"
    /\ arg' = <<>>
    /\ ret' = "None"
    /\ raised' = "None"
    /\ UNCHANGED <<cfp_data, cfp_food, meals>>
    /\ IF meals = <<>>
       THEN /\ out' = <<<<NoMealsToSave, <<>>>>>>
            /\ locals' = NoLocals
       ELSE LET summary_data ==
                    [i \in DOMAIN meals |->
                        [MealName |-> meals[i].key,
                         CarbonFootprint |-> meals[i].val.total_cfp,
                         ItemCount |-> Len(meals[i].val.items),
                         Items |-> meals[i].val.items]]
                RowsOf(m) ==
                    [j \in DOMAIN m.val.breakdown |->
                        [Meal |-> m.key,
                         FoodItem |-> m.val.breakdown[j].key,
                         Quantity |-> m.val.breakdown[j].val.quantity,
                         UnitCfp |-> m.val.breakdown[j].val.unit_cfp,
                         TotalCfp |-> m.val.breakdown[j].val.total_cfp,
                         PercentageOfMeal |->
                             Times100(TrueDiv(m.val.breakdown[j].val.total_cfp,
                                              m.val.total_cfp, FALSE))]]
                details_data == Concat([i \in DOMAIN meals |-> RowsOf(meals[i])])
            IN  /\ out' = <<<<ComparisonSaved, <<>>>>>>
                /\ locals' = [summary_data |-> summary_data,
                              details_data |-> details_data]

Next ==
    \/ AddMeal
    \/ CompareMeals
    \/ PlotMealComparison
    \/ PlotStackedComparison
    \/ SaveComparison

Spec == Init /\ [][Next]_vars

(* Properties of calculate_footprint, checked under SpecCalc *)

Called(name) == op = name

Known(it) == InFoodList(cfp_food, it.food)

RECURSIVE SumOver(_, _)
\* the sum of items[i].quantity * factor of items[i].food over the positions in S
SumOver(S, items) ==
    IF S = {} THEN 0
    ELSE LET i == CHOOSE x \in S : TRUE
         IN  items[i].quantity * item_cfp(cfp_food, items[i].food)
                 + SumOver(S \ {i}, items)

\* C1: the total returned by calculate_footprint is the sum of quantity times
\* unit footprint over exactly the items it did not skip (those whose food is
\* in the table), every occurrence of a repeated food counted
C1_TotalIsSumOfKept ==
    Called("calculate_footprint") =>
        ret[1] = SumOver({i \in DOMAIN arg : Known(arg[i])}, arg)

\* a list with the same known food twice and one skipped item has been totalled
C1_Witness ==
    /\ Called("calculate_footprint")
    /\ Len(arg) = 3
    /\ arg[1].food = Beef /\ arg[1].quantity = 1
    /\ arg[2].food = Beef /\ arg[2].quantity = 2
    /\ ~Known(arg[3])
    /\ ret[1] = 3 * item_cfp(cfp_food, Beef)

UnknownNames(items) ==
    LET u == SelectSeq(items, LAMBDA it : ~Known(it))
    IN  [i \in DOMAIN u |-> u[i].food]

C3_NonPositiveSkipped ==
    Called("calculate_footprint") =>
        ret = calculate_footprint(cfp_food,
                                  SelectSeq(arg, LAMBDA it : it.quantity > 0)).ret

(* Properties of suggest_alternatives, checked under SpecSuggest *)

\* the positions of the rows strictly below the factor of the asked food
Candidates == {i \in DOMAIN cfp_food :
                  cfp_food[i].cfp < item_cfp(cfp_food, arg.food_item)}

Min(a, b) == IF a < b THEN a ELSE b

\* C4: for a known food and N >= 0 the result is the first N rows of the rows
\* strictly below the target, in descending order of factor: each returned
\* pair is a row of its own below the target, the length is min(N, number of
\* such rows), factors never increase, and no row left out has a higher
\* factor than the last one returned
C4_FirstNLowerDescending ==
    (Called("suggest_alternatives") /\ InFoodList(cfp_food, arg.food_item)) =>
        /\ \A k \in DOMAIN ret : ret[k][2] < item_cfp(cfp_food, arg.food_item)
        /\ Len(ret) <= arg.max_suggestions
        /\ Len(ret) = Min(arg.max_suggestions, Cardinality(Candidates))
        /\ \A k \in 1..(Len(ret) - 1) : ret[k][2] >= ret[k + 1][2]
        /\ \E f \in [DOMAIN ret -> Candidates] :
              /\ \A j, k \in DOMAIN ret : j # k => f[j] # f[k]
              /\ \A k \in DOMAIN ret :
                    ret[k] = <<cfp_food[f[k]].food, cfp_food[f[k]].cfp>>
              /\ \A i \in Candidates :
                    (\A k \in DOMAIN ret : f[k] # i) =>
                        (ret = <<>> \/ cfp_food[i].cfp <= ret[Len(ret)][2])

\* one suggestion was asked of a food with two lower rows of different
\* factors: the closer one was returned and the lower one left out
C4_Witness ==
    /\ Called("suggest_alternatives")
    /\ InFoodList(cfp_food, arg.food_item)
    /\ arg.max_suggestions = 1
    /\ Len(ret) = 1
    /\ \E i \in Candidates : cfp_food[i].cfp < ret[1][2]

\* the lowest factor of the table as read
MinFactor == CHOOSE m \in Range([i \in DOMAIN cfp_data |-> cfp_data[i].cfp]) :
                 \A i \in DOMAIN cfp_data : m <= cfp_data[i].cfp

\* C5: suggest_alternatives returns the empty list and raises nothing when
\* the food is unknown, when no row is strictly below it, and so for a food
\* holding or sharing the lowest factor of the table
C5_EmptyWhenUnknownOrLowest ==
    Called("suggest_alternatives") =>
        /\ raised = "None"
        /\ ~InFoodList(cfp_food, arg.food_item) => ret = <<>>
        /\ (InFoodList(cfp_food, arg.food_item) /\ Candidates = {}) => ret = <<>>
        /\ (\E i \in DOMAIN cfp_data :
               /\ Lower(cfp_data[i].food) = arg.food_item
               /\ cfp_data[i].cfp = MinFactor) => ret = <<>>

\* three suggestions were asked of a food that shares the lowest factor with
\* another food, in a table that has a higher row too
C5_Witness ==
    /\ Called("suggest_alternatives")
    /\ arg.max_suggestions = 3
    /\ InFoodList(cfp_food, arg.food_item)
    /\ item_cfp(cfp_food, arg.food_item) = MinFactor
    /\ \E i, j \in DOMAIN cfp_food :
          /\ cfp_food[i].food # arg.food_item
          /\ cfp_food[i].cfp = MinFactor
          /\ cfp_food[j].cfp > MinFactor
    /\ ret = <<>>

(* Properties of the comparison tool, checked under Spec *)

Position(ms, name) == CHOOSE i \in DOMAIN ms : ms[i].key = name

\* C6: with at least one meal stored, the sorted list of compare_meals holds
\* every stored meal exactly once, in ascending order of total_cfp, meals of
\* equal total in the order of the dict, and the lowest and highest meals are
\* its first and last elements
C6_RankAscendingStable ==
    (Called("compare_meals") /\ meals # <<>>) =>
        LET sm == locals.sorted_meals
        IN  /\ Len(sm) = Len(meals)
            /\ \A i \in DOMAIN meals :
                  Cardinality({j \in DOMAIN sm : sm[j] = meals[i]}) = 1
            /\ \A j, k \in DOMAIN sm :
                  j < k => /\ sm[j].val.total_cfp <= sm[k].val.total_cfp
                           /\ sm[j].val.total_cfp = sm[k].val.total_cfp =>
                                  Position(meals, sm[j].key) < Position(meals, sm[k].key)
            /\ locals.lowest_cfp_meal = sm[1].key
            /\ locals.highest_cfp_meal = sm[Len(sm)].key

\* two meals of the same non-zero total have been compared
C6_Witness ==
    /\ Called("compare_meals")
    /\ Len(meals) = 2
    /\ meals[1].val.total_cfp = meals[2].val.total_cfp
    /\ meals[1].val.total_cfp > 0
    /\ meals[1].val.items # meals[2].val.items
    /\ locals.lowest_cfp_meal = meals[1].key
    /\ locals.highest_cfp_meal = meals[2].key

MealNamesOf(ms) == Range(DictKeys(ms))

\* C7: add_meal replaces and never accumulates: after add_meal(name, items)
\* the entry of name is the one computed from items alone, every other meal is
\* where and what it was, the dict has one entry for each name, a second
\* identical call changes nothing, and no step ever removes a name
C7_AddMealReplaces ==
    [][/\ MealNamesOf(meals) \subseteq MealNamesOf(meals')
       /\ op' = "add_meal" =>
             LET name == arg'.meal_name
                 r == calculate_footprint(cfp_food, arg'.items).ret
             IN  /\ DictHas(meals', name)
                 /\ DictGet(meals', name) =
                        [items |-> arg'.items, total_cfp |-> r[1], breakdown |-> r[2]]
                 /\ \A i \in DOMAIN meals : meals[i].key # name => meals'[i] = meals[i]
                 /\ Len(meals') = IF DictHas(meals, name) THEN Len(meals)
                                                         ELSE Len(meals) + 1
                 /\ MealNamesOf(meals') = MealNamesOf(meals) \cup {name}
                 /\ add_meal(cfp_food, meals', name, arg'.items).meals = meals'
                 /\ (op = "add_meal" /\ arg = arg') => meals' = meals
      ]_vars

\* the meal stored first has just been added again, with two items, while a
\* second meal is stored behind it
C7_Witness ==
    /\ Called("add_meal")
    /\ Len(meals) = 2
    /\ meals[1].key = arg.meal_name
    /\ meals[1].val.items = arg.items
    /\ Len(arg.items) = 2
    /\ meals[2].val.total_cfp > 0

\* the foods that are a breakdown key of some stored meal
FoodUnion == {f \in QueryFoods : \E i \in DOMAIN meals : DictHas(meals[i].val.breakdown, f)}

\* C8: the rows built by plot_stacked_comparison are exactly one for every
\* pair of a stored meal and a food of the union of the breakdown keys, with
\* the meal's breakdown total for the food, or 0 when the meal does not have
\* the food; the pivoted table has the same cells
C8_MatrixOnePerPair ==
    (Called("plot_stacked_comparison") /\ Len(meals) >= 2) =>
        /\ Len(locals.data) = Len(meals) * Cardinality(FoodUnion)
        /\ \A i \in DOMAIN meals : \A f \in FoodUnion :
              LET rows == {k \in DOMAIN locals.data :
                              /\ locals.data[k].Meal = meals[i].key
                              /\ locals.data[k].FoodItem = f}
                  expected == IF DictHas(meals[i].val.breakdown, f)
                              THEN DictGet(meals[i].val.breakdown, f).total_cfp
                              ELSE 0
              IN  /\ Cardinality(rows) = 1
                  /\ \A k \in rows : locals.data[k].CarbonFootprint = expected
                  /\ raised = "None" =>
                        /\ DOMAIN locals.pivot_df = MealNamesOf(meals) \X FoodUnion
                        /\ locals.pivot_df[<<meals[i].key, f>>] = expected

\* the matrix of the scenario: Lunch has beef and rice, Dinner rice only
C8_Witness ==
    /\ Called("plot_stacked_comparison")
    /\ raised = "None"
    /\ Len(meals) = 2
    /\ meals[1].key = Lunch
    /\ FoodUnion = {Beef, Rice}
    /\ locals.pivot_df[<<Lunch, Beef>>] = 600
    /\ locals.pivot_df[<<Lunch, Rice>>] = 40
    /\ locals.pivot_df[<<Dinner, Beef>>] = 0
    /\ locals.pivot_df[<<Dinner, Rice>>] = 40

RECURSIVE RowSum(_, _, _)
\* the sum of the cells of a meal over a set of foods
RowSum(df, meal_name, foods) ==
    IF foods = {} THEN 0
    ELSE LET f == CHOOSE x \in foods : TRUE
         IN  df[<<meal_name, f>>] + RowSum(df, meal_name, foods \ {f})

\* C9: in the table built by plot_stacked_comparison the cells of every meal
\* add up to the meal's stored total_cfp
C9_RowSumsToTotal ==
    (Called("plot_stacked_comparison") /\ Len(meals) >= 2 /\ raised = "None") =>
        \A i \in DOMAIN meals :
            RowSum(locals.pivot_df, meals[i].key, FoodUnion) = meals[i].val.total_cfp

Queries == {"compare_meals", "plot_meal_comparison", "plot_stacked_comparison",
            "save_comparison"}

C11_DeltaGuarded ==
    (Called("compare_meals") /\ Len(meals) > 1) =>
        LET sm == locals.sorted_meals
            high == sm[Len(sm)].val.total_cfp
            low == sm[1].val.total_cfp
        IN  /\ raised = "None"
            /\ locals.difference = high - low
            /\ "percentage" \in DOMAIN locals
            /\ IF high # 0
               THEN /\ locals.percentage.kind = "value"
                    /\ locals.percentage.num * high
                           = (high - low) * 100 * locals.percentage.den
               ELSE locals.percentage.kind # "value"

(* Properties of the lookup of food names, checked under SpecLookup *)

\* lowercase and trim
Normalize(s) == Lower(Strip(s))

\* C12: calculate_footprint and suggest_alternatives look a food name up after
\* lowercasing and trimming it: a case variant or padded variant of a stored
\* food is never reported as not found, and the result is the one of the
\* normalised name
C12_LookupNormalizes ==
    /\ Called("calculate_footprint") =>
          /\ \A i \in DOMAIN arg :
                InFoodList(cfp_food, Normalize(arg[i].food)) =>
                    \A k \in DOMAIN out : out[k] # <<WarningNotFound, arg[i].food>>
          /\ ret[1] = calculate_footprint(cfp_food,
                          [i \in DOMAIN arg |->
                              [food |-> Normalize(arg[i].food),
                               quantity |-> arg[i].quantity]]).ret[1]
    /\ Called("suggest_alternatives") =>
          ret \in suggest_alternatives(cfp_food, Normalize(arg.food_item),
                                       arg.max_suggestions)

(* Properties of the breakdown, checked under SpecCalc *)

\* the positions of the items that are the first of their food among the
\* valid items, and the last of their food
FirstOfFood(i) == Known(arg[i]) /\ \A j \in 1..(i - 1) : arg[j].food # arg[i].food
LastOfFood(i) == \A j \in (i + 1)..Len(arg) : arg[j].food # arg[i].food

\* C13: the breakdown returned by calculate_footprint has one key for each
\* valid food; the keys come in the order in which the foods first occur
\* among the valid items, and the entry of a food that occurs several times
\* holds the quantity and total of its last occurrence
C13_BreakdownLastWriteFirstOrder ==
    Called("calculate_footprint") =>
        LET bd == ret[2]
            firsts == SelectSeq([i \in DOMAIN arg |-> i], FirstOfFood)
        IN  /\ \A j, k \in DOMAIN bd : j # k => bd[j].key # bd[k].key
            /\ DictKeys(bd) = [k \in DOMAIN firsts |-> arg[firsts[k]].food]
            /\ \A i \in DOMAIN arg :
                  (Known(arg[i]) /\ LastOfFood(i)) =>
                      /\ DictGet(bd, arg[i].food).quantity = arg[i].quantity
                      /\ DictGet(bd, arg[i].food).total_cfp
                             = arg[i].quantity * item_cfp(cfp_food, arg[i].food)
                      /\ DictGet(bd, arg[i].food).unit_cfp
                             = item_cfp(cfp_food, arg[i].food)

\* beef, rice and beef again with another quantity: the breakdown lists beef
\* before rice and holds the second quantity of beef
C13_Witness ==
    /\ Called("calculate_footprint")
    /\ Len(arg) = 3
    /\ arg[1] = [food |-> Beef, quantity |-> 1]
    /\ arg[2] = [food |-> Rice, quantity |-> 2]
    /\ arg[3] = [food |-> Beef, quantity |-> 2]
    /\ DictKeys(ret[2]) = <<Beef, Rice>>
    /\ DictGet(ret[2], Beef).quantity = 2
    /\ DictGet(ret[2], Beef).total_cfp = 2 * item_cfp(cfp_food, Beef)

====
